---- MODULE Spec2Model ----
(***************************************************************************)
(* Model of the transaction decoder of src/src/main.rs.                    *)
(*                                                                         *)
(* Bytes are naturals in 0..255.  Unsigned integers wider than a byte are  *)
(* kept at their width as little-endian sequences of 16-bit limbs (a u16   *)
(* is 1 limb, a u32 2 limbs, a u64 4 limbs), so that from_le_bytes is a    *)
(* real conversion and no value leaves the range of the model checker.     *)
(* Text (the hex input, a rendered script) is a sequence of one-character  *)
(* strings.                                                                *)
(***************************************************************************)
EXTENDS Integers, Sequences, FiniteSets, TLC

VARIABLES
    transaction_hex,    \* decode's argument (main.rs:84)
    transaction_bytes,  \* the raw buffer hex::decode produced (main.rs:85)
    bytes_slice,        \* the cursor: the unread part of the buffer (main.rs:87)
    pc,                 \* position in decode / main
    frame,              \* decode's locals (main.rs:90-126), one field each
    result,             \* what decode returned (main.rs:84,137)
    printed,            \* what main printed (main.rs:143-146)
    trace,              \* history: the cursor reads decode made, in order
    last,               \* history: the last reader call (reader harness)
    ncalls              \* number of reader calls made (reader harness)

vars == <<transaction_hex, transaction_bytes, bytes_slice, pc, frame, result,
          printed, trace, last, ncalls>>

(***************************************************************************)
(* Bounds of the model.                                                    *)
(***************************************************************************)
MaxItems == 2       \* inputs / outputs per generated transaction
MaxScript == 2      \* body bytes of a generated script
MaxTail == 8        \* bytes after the prefix of a generated CompactSize slice
MaxRamp == 34       \* length of the generated patterned slices
MaxCalls == 1       \* reader calls in a row in the reader harness
MaxAlloc == 300     \* largest script body the model allocates

\* An unassigned local, a result not yet returned.
None == <<>>

Min(a, b) == IF a < b THEN a ELSE b

Zeros(n) == [i \in 1..n |-> 0]

(***************************************************************************)
(* <&[u8] as std::io::Read>::read, as called on lines 20..67: copies       *)
(* min(len(buf), len(slice)) bytes to the front of buf, leaves the rest of *)
(* buf as it was, advances the slice past the copied bytes and returns     *)
(* Ok(amt).  It has no error outcome.                                      *)
(***************************************************************************)
Read(slice, buf) ==
    LET amt == Min(Len(buf), Len(slice))
    IN  [tag  |-> "Ok",
         buf  |-> [i \in 1..Len(buf) |-> IF i <= amt THEN slice[i] ELSE buf[i]],
         rest |-> SubSeq(slice, amt + 1, Len(slice)),
         amt  |-> amt]

\* Mutant of from_le_bytes: the bytes taken in big-endian order.
from_be_bytes(buffer) ==
    [i \in 1..(Len(buffer) \div 2) |->
        256 * buffer[Len(buffer) - 2 * i + 1] + buffer[Len(buffer) - 2 * i + 2]]

\* uN::from_le_bytes: byte 2i-1 is the low half of limb i, byte 2i the high half.
from_le_bytes(buffer) ==
    [i \in 1..(Len(buffer) \div 2) |-> buffer[2 * i - 1] + 256 * buffer[2 * i]]

\* `x as u64` for an unsigned x of 8, 16 or 32 bits: zero extension to 4 limbs.
as_u64(limbs) == [i \in 1..4 |-> IF i <= Len(limbs) THEN limbs[i] ELSE 0]

\* A reader's Ok(value), with the cursor it leaves behind.
Ok(value, rest) == [tag |-> "Ok", value |-> value, rest |-> rest]

\* The `?` on an io::Result: the error is returned, the cursor stays where read left it.
IoErr(r) == [tag |-> "Err", value |-> "IoError", rest |-> r.rest]

\* transaction.rs (not in src/): Txid::from_bytes keeps the 32 bytes verbatim.
Txid_from_bytes(buffer) == [txid_bytes |-> buffer]

\* transaction.rs (not in src/): Amount::from_sat wraps the satoshi count.
Amount_from_sat(sat) == [sat |-> sat]

read_compact_size(slice) ==
    LET r1 == Read(slice, Zeros(1))
        p  == r1.buf[1]
    IN  IF r1.tag = "Err" THEN IoErr(r1)
        ELSE IF p <= 252 THEN Ok(as_u64(<<p>>), r1.rest)
        ELSE LET n  == CASE p = 253 -> 2 [] p = 254 -> 4 [] OTHER -> 8
                 r2 == Read(r1.rest, Zeros(n))
             IN  IF r2.tag = "Err" THEN IoErr(r2)
                 ELSE Ok(as_u64(from_le_bytes(r2.buf)), r2.rest)

read_u32(slice) ==
    LET r == Read(slice, Zeros(4))
    IN  IF r.tag = "Err" THEN IoErr(r) ELSE Ok(from_le_bytes(r.buf), r.rest)

read_amount(slice) ==
    LET r == Read(slice, Zeros(8))
    IN  IF r.tag = "Err" THEN IoErr(r)
        ELSE Ok(Amount_from_sat(from_le_bytes(r.buf)), r.rest)

read_txid(slice) ==
    LET r == Read(slice, Zeros(32))
    IN  IF r.tag = "Err" THEN IoErr(r) ELSE Ok(Txid_from_bytes(r.buf), r.rest)

\* `x as usize` where the model can hold it: the value of a u64 whose upper limbs are 0.
FitsUsize(v) == \A i \in 2..Len(v) : v[i] = 0
as_usize(v) == v[1]

HexDigits == <<"0", "1", "2", "3", "4", "5", "6", "7",
               "8", "9", "a", "b", "c", "d", "e", "f">>

\* hex::encode: two lowercase digits per byte, high nibble first.
hex_encode(buffer) ==
    [i \in 1..(2 * Len(buffer)) |->
        IF i % 2 = 1 THEN HexDigits[(buffer[(i + 1) \div 2] \div 16) + 1]
                     ELSE HexDigits[(buffer[i \div 2] % 16) + 1]]

\* Defined for script sizes the model allocates (see CanAlloc).
read_script(slice) ==
    LET c == read_compact_size(slice)
    IN  IF c.tag = "Err" THEN c
        ELSE LET script_size == as_usize(c.value)
                 r == Read(c.rest, Zeros(script_size))
             IN  IF r.tag = "Err" THEN IoErr(r) ELSE Ok(hex_encode(r.buf), r.rest)

\* The script size read_script would allocate at this cursor is within the model's bound.
CanAlloc(slice) ==
    LET c == read_compact_size(slice)
    IN  c.tag = "Ok" => (FitsUsize(c.value) /\ as_usize(c.value) <= MaxAlloc)

\* The script size read_script would allocate at this cursor is above isize::MAX:
\* the top limb of the u64 is 2^15 or more.
CapacityOverflow(slice) ==
    LET c == read_compact_size(slice)
    IN  c.tag = "Ok" /\ c.value[4] >= 32768

(***************************************************************************)
(* Reader harness: each reader applied to a cursor drawn from a bounded set *)
(* of slices (every CompactSize prefix class with every short and complete *)
(* tail, the slices of the test on lines 155..180, patterned slices up to  *)
(* past the 32 bytes of a txid).                                           *)
(***************************************************************************)
RECURSIVE BitSeqs(_)
BitSeqs(n) ==
    IF n = 0 THEN {<<>>}
    ELSE LET shorter == BitSeqs(n - 1)
         IN  shorter \cup {Append(s, b) : s \in {t \in shorter : Len(t) = n - 1}, b \in {0, 1}}

CSPrefixes == {0, 1, 252, 253, 254, 255}

Ramp(n, b) == [i \in 1..n |-> (b + i) % 256]

TestSlices ==
    {<<1>>, <<253, 0, 1>>, <<254, 0, 0, 0, 1>>, <<255, 0, 0, 0, 0, 0, 0, 0, 1>>,
     <<253, 32, 78>>, <<255, 255, 255, 255, 255, 255, 255, 255, 255>>,
     <<254, 255, 255, 255, 255>>, <<253, 252, 0>>, <<2, 171, 205, 239>>}

ReaderInputs ==
    {<<p>> \o t : p \in CSPrefixes, t \in BitSeqs(MaxTail)}
        \cup {Ramp(n, b) : n \in 0..MaxRamp, b \in {0, 127}}
        \cup TestSlices

\* decode's locals before any of them is assigned.
EmptyFrame ==
    [version |-> None, input_count |-> None, inputs |-> <<>>, txid |-> None,
     output_index |-> None, script_sig |-> None, output_count |-> None,
     outputs |-> <<>>, amount |-> None, lock_time |-> None, transaction_id |-> None]

NoCall == [op |-> "none", before |-> <<>>, ret |-> Ok(<<>>, <<>>)]

InitReaders ==
    /\ bytes_slice \in ReaderInputs
    /\ pc = "readers"
    /\ transaction_hex = <<>>
    /\ transaction_bytes = <<>>
    /\ frame = EmptyFrame
    /\ result = None
    /\ printed = None
    /\ trace = <<>>
    /\ last = NoCall
    /\ ncalls = 0

\* One call reader(&mut bytes_slice): the cursor is advanced in place.
Call(op, ret) ==
    /\ pc = "readers"
    /\ ncalls < MaxCalls
    /\ last' = [op |-> op, before |-> bytes_slice, ret |-> ret]
    /\ bytes_slice' = ret.rest
    /\ ncalls' = ncalls + 1
    /\ UNCHANGED <<transaction_hex, transaction_bytes, pc, frame, result, printed, trace>>

CallReadCompactSize == Call("read_compact_size", read_compact_size(bytes_slice))

CallReadU32 == Call("read_u32", read_u32(bytes_slice))

CallReadAmount == Call("read_amount", read_amount(bytes_slice))

CallReadTxid == Call("read_txid", read_txid(bytes_slice))

CallReadScript == CanAlloc(bytes_slice) /\ Call("read_script", read_script(bytes_slice))

NextReaders ==
    \/ CallReadCompactSize
    \/ CallReadU32
    \/ CallReadAmount
    \/ CallReadTxid
    \/ CallReadScript

SpecReaders == InitReaders /\ [][NextReaders]_vars

(***************************************************************************)
(* decode (main.rs:84-138) and main (main.rs:140-147).                     *)
(***************************************************************************)
HexUpper == <<"0", "1", "2", "3", "4", "5", "6", "7",
              "8", "9", "A", "B", "C", "D", "E", "F">>

\* The hex crate's val(): the digit's value, or -1 for a character that is no hex digit.
HexVal(c) ==
    IF \E i \in 1..16 : HexDigits[i] = c
        THEN (CHOOSE i \in 1..16 : HexDigits[i] = c) - 1
    ELSE IF \E i \in 1..16 : HexUpper[i] = c
        THEN (CHOOSE i \in 1..16 : HexUpper[i] = c) - 1
    ELSE -1

\* Mutant of hex_decode: no odd-length check, a dangling last digit is dropped.
hex_decode_no_odd_check(str) ==
    IF \E i \in 1..Len(str) : HexVal(str[i]) = -1
        THEN [tag |-> "Err", value |-> "InvalidHexCharacter"]
    ELSE [tag |-> "Ok",
          value |-> [i \in 1..(Len(str) \div 2) |->
                        16 * HexVal(str[2 * i - 1]) + HexVal(str[2 * i])]]

\* hex::decode: odd length is refused first, then the first character that is no digit.
hex_decode(str) ==
    IF Len(str) % 2 # 0 THEN [tag |-> "Err", value |-> "OddLength"]
    ELSE IF \E i \in 1..Len(str) : HexVal(str[i]) = -1
        THEN [tag |-> "Err", value |-> "InvalidHexCharacter"]
    ELSE [tag |-> "Ok",
          value |-> [i \in 1..(Len(str) \div 2) |->
                        16 * HexVal(str[2 * i - 1]) + HexVal(str[2 * i])]]

RECURSIVE WeightedSum(_, _, _)
WeightedSum(data, i, w) ==
    IF i > Len(data) THEN 0
    ELSE (data[i] + 1) * (IF w THEN i ELSE 1) + WeightedSum(data, i + 1, w)

\* One round of Sha256 (new, update, finalize).  The compression function is
\* abstracted: a 32-byte digest that depends on the length, the value and the
\* position of every byte fed to it.
Sha256(data) ==
    LET plain == WeightedSum(data, 1, FALSE)
        byPos == WeightedSum(data, 1, TRUE)
    IN  [j \in 1..32 |-> (Len(data) + 7 * j + byPos + j * plain) % 256]

hash_raw_transaction(raw_transaction) ==
    LET hash1 == Sha256(raw_transaction)
        hash2 == Sha256(hash1)
    IN  Txid_from_bytes(hash2)

\* `i < n` for a loop index i and a u64 n.
LtU64(i, n) == ~FitsUsize(n) \/ i < as_usize(n)

Pos == Len(transaction_bytes) - Len(bytes_slice)

\* Mutant of ReadStep: the reader is handed a copy of the cursor, which stays put.
ReadStep_OnCopy(here, field, r) ==
    /\ pc = here
    /\ bytes_slice' = bytes_slice
    /\ trace' = Append(trace, [field |-> field, pos |-> Pos,
                               got |-> Len(bytes_slice) - Len(r.rest)])
    /\ UNCHANGED <<transaction_hex, transaction_bytes, printed, last, ncalls>>

\* A cursor read by decode: the cursor advances and the read is logged.
ReadStep(here, field, r) ==
    /\ pc = here
    /\ bytes_slice' = r.rest
    /\ trace' = Append(trace, [field |-> field, pos |-> Pos,
                               got |-> Len(bytes_slice) - Len(r.rest)])
    /\ UNCHANGED <<transaction_hex, transaction_bytes, printed, last, ncalls>>

\* The `?` of decode: the error is boxed and returned at once.
Abort(r) ==
    /\ result' = [tag |-> "Err", value |-> r.value]
    /\ pc' = "returned"
    /\ UNCHANGED frame

\* Mutant of HexDecode: the error is recorded but decode goes on, over an empty buffer.
HexDecode_Continues ==
    /\ pc = "hex_decode"
    /\ LET r == hex_decode(transaction_hex)
       IN  IF r.tag = "Err"
           THEN /\ result' = [tag |-> "Err", value |-> <<"Hex decode error", r.value>>]
                /\ pc' = "version"
                /\ UNCHANGED <<transaction_bytes, bytes_slice>>
           ELSE /\ transaction_bytes' = r.value
                /\ bytes_slice' = r.value
                /\ pc' = "version"
                /\ UNCHANGED result
    /\ UNCHANGED <<transaction_hex, frame, printed, trace, last, ncalls>>

\* lines 85-87
HexDecode ==
    /\ pc = "hex_decode"
    /\ LET r == hex_decode(transaction_hex)
       IN  IF r.tag = "Err"
           THEN /\ result' = [tag |-> "Err", value |-> <<"Hex decode error", r.value>>]
                /\ pc' = "returned"
                /\ UNCHANGED <<transaction_bytes, bytes_slice>>
           ELSE /\ transaction_bytes' = r.value
                /\ bytes_slice' = r.value
                /\ pc' = "version"
                /\ UNCHANGED result
    /\ UNCHANGED <<transaction_hex, frame, printed, trace, last, ncalls>>

\* line 90
ReadVersion ==
    LET r == read_u32(bytes_slice)
    IN  /\ ReadStep("version", "version", r)
        /\ IF r.tag = "Err" THEN Abort(r)
           ELSE /\ frame' = [frame EXCEPT !.version = r.value]
                /\ pc' = "input_count"
                /\ UNCHANGED result

\* lines 93-96
ReadInputCount ==
    LET r == read_compact_size(bytes_slice)
    IN  /\ ReadStep("input_count", "input_count", r)
        /\ IF r.tag = "Err" THEN Abort(r)
           ELSE /\ frame' = [frame EXCEPT !.input_count = r.value, !.inputs = <<>>]
                /\ pc' = IF LtU64(0, r.value) THEN "txid" ELSE "output_count"
                /\ UNCHANGED result

\* line 97
ReadTxid ==
    LET r == read_txid(bytes_slice)
    IN  /\ ReadStep("txid", "txid", r)
        /\ IF r.tag = "Err" THEN Abort(r)
           ELSE /\ frame' = [frame EXCEPT !.txid = r.value]
                /\ pc' = "output_index"
                /\ UNCHANGED result

\* Mutant of ReadOutputIndex: the sequence is read next, the script is skipped.
ReadOutputIndex_SkipsScript ==
    LET r == read_u32(bytes_slice)
    IN  /\ ReadStep("output_index", "output_index", r)
        /\ IF r.tag = "Err" THEN Abort(r)
           ELSE /\ frame' = [frame EXCEPT !.output_index = r.value]
                /\ pc' = "sequence"
                /\ UNCHANGED result

\* line 98
ReadOutputIndex ==
    LET r == read_u32(bytes_slice)
    IN  /\ ReadStep("output_index", "output_index", r)
        /\ IF r.tag = "Err" THEN Abort(r)
           ELSE /\ frame' = [frame EXCEPT !.output_index = r.value]
                /\ pc' = "script_sig"
                /\ UNCHANGED result

\* line 99
ReadScriptSig ==
    /\ CanAlloc(bytes_slice)
    /\ LET r == read_script(bytes_slice)
       IN  /\ ReadStep("script_sig", "script_sig", r)
           /\ IF r.tag = "Err" THEN Abort(r)
              ELSE /\ frame' = [frame EXCEPT !.script_sig = r.value]
                   /\ pc' = "sequence"
                   /\ UNCHANGED result

\* Mutant of ReadSequence: the Input is inserted at the front of inputs.
ReadSequence_PushFront ==
    LET r == read_u32(bytes_slice)
    IN  /\ ReadStep("sequence", "sequence", r)
        /\ IF r.tag = "Err" THEN Abort(r)
           ELSE LET input == [txid |-> frame.txid,
                              output_index |-> frame.output_index,
                              script_sig |-> frame.script_sig,
                              sequence |-> r.value]
                    pushed == <<input>> \o frame.inputs
                IN  /\ frame' = [frame EXCEPT !.inputs = pushed]
                    /\ pc' = IF LtU64(Len(pushed), frame.input_count)
                                THEN "txid" ELSE "output_count"
                    /\ UNCHANGED result

\* lines 100-108: the sequence is read, the Input is pushed, the loop goes round.
ReadSequence ==
    LET r == read_u32(bytes_slice)
    IN  /\ ReadStep("sequence", "sequence", r)
        /\ IF r.tag = "Err" THEN Abort(r)
           ELSE LET input == [txid |-> frame.txid,
                              output_index |-> frame.output_index,
                              script_sig |-> frame.script_sig,
                              sequence |-> r.value]
                    pushed == Append(frame.inputs, input)
                IN  /\ frame' = [frame EXCEPT !.inputs = pushed]
                    /\ pc' = IF LtU64(Len(pushed), frame.input_count)
                                THEN "txid" ELSE "output_count"
                    /\ UNCHANGED result

\* lines 111-114
ReadOutputCount ==
    LET r == read_compact_size(bytes_slice)
    IN  /\ ReadStep("output_count", "output_count", r)
        /\ IF r.tag = "Err" THEN Abort(r)
           ELSE /\ frame' = [frame EXCEPT !.output_count = r.value, !.outputs = <<>>]
                /\ pc' = IF LtU64(0, r.value) THEN "amount" ELSE "lock_time"
                /\ UNCHANGED result

\* line 115
ReadAmount ==
    LET r == read_amount(bytes_slice)
    IN  /\ ReadStep("amount", "amount", r)
        /\ IF r.tag = "Err" THEN Abort(r)
           ELSE /\ frame' = [frame EXCEPT !.amount = r.value]
                /\ pc' = "script_pubkey"
                /\ UNCHANGED result

\* lines 116-122: the script is read, the Output is pushed, the loop goes round.
ReadScriptPubkey ==
    /\ CanAlloc(bytes_slice)
    /\ LET r == read_script(bytes_slice)
       IN  /\ ReadStep("script_pubkey", "script_pubkey", r)
           /\ IF r.tag = "Err" THEN Abort(r)
              ELSE LET output == [amount |-> frame.amount, script_pubkey |-> r.value]
                       pushed == Append(frame.outputs, output)
                   IN  /\ frame' = [frame EXCEPT !.outputs = pushed]
                       /\ pc' = IF LtU64(Len(pushed), frame.output_count)
                                   THEN "amount" ELSE "lock_time"
                       /\ UNCHANGED result

\* lines 65-66, called from lines 99 and 116: vec![0_u8; script_size] with a
\* script_size above isize::MAX (2^63 - 1) panics ("capacity overflow"): decode
\* never returns and main prints nothing.
ScriptAllocPanics ==
    /\ pc \in {"script_sig", "script_pubkey"}
    /\ CapacityOverflow(bytes_slice)
    /\ LET c == read_compact_size(bytes_slice)
       IN  /\ bytes_slice' = c.rest
           /\ trace' = Append(trace, [field |-> pc, pos |-> Pos,
                                      got |-> Len(bytes_slice) - Len(c.rest)])
    /\ pc' = "panicked"
    /\ UNCHANGED <<transaction_hex, transaction_bytes, frame, result, printed, last, ncalls>>

\* line 125
ReadLockTime ==
    LET r == read_u32(bytes_slice)
    IN  /\ ReadStep("lock_time", "lock_time", r)
        /\ IF r.tag = "Err" THEN Abort(r)
           ELSE /\ frame' = [frame EXCEPT !.lock_time = r.value]
                /\ pc' = "hash"
                /\ UNCHANGED result

\* Mutant of HashRawTransaction: the cursor's remaining bytes are hashed.
HashRawTransaction_OfCursor ==
    /\ pc = "hash"
    /\ frame' = [frame EXCEPT !.transaction_id = hash_raw_transaction(bytes_slice)]
    /\ pc' = "assemble"
    /\ UNCHANGED <<transaction_hex, transaction_bytes, bytes_slice, result, printed,
                   trace, last, ncalls>>

\* line 126
HashRawTransaction ==
    /\ pc = "hash"
    /\ frame' = [frame EXCEPT !.transaction_id = hash_raw_transaction(transaction_bytes)]
    /\ pc' = "assemble"
    /\ UNCHANGED <<transaction_hex, transaction_bytes, bytes_slice, result, printed,
                   trace, last, ncalls>>

\* lines 129-137: the Transaction is built and returned, rendered as JSON (the
\* rendering is kept as the object's fields).
Assemble ==
    /\ pc = "assemble"
    /\ LET transaction == [transaction_id |-> frame.transaction_id,
                           version |-> frame.version,
                           inputs |-> frame.inputs,
                           outputs |-> frame.outputs,
                           lock_time |-> frame.lock_time]
       IN  result' = [tag |-> "Ok", value |-> transaction]
    /\ pc' = "returned"
    /\ UNCHANGED <<transaction_hex, transaction_bytes, bytes_slice, frame, printed,
                   trace, last, ncalls>>

\* lines 143-146: both arms print what decode returned.
MainPrint ==
    /\ pc = "returned"
    /\ printed' = result
    /\ pc' = "done"
    /\ UNCHANGED <<transaction_hex, transaction_bytes, bytes_slice, frame, result,
                   trace, last, ncalls>>

(***************************************************************************)
(* The inputs decode is run on: the serialization of small transactions    *)
(* (0..MaxItems inputs and outputs, scripts of 0..MaxScript bytes, counts  *)
(* in the 1-byte and in the 3-byte form), every truncation of each, each   *)
(* followed by trailing bytes, and malformed hex strings.                  *)
(***************************************************************************)
GenScript(len, seed) == <<len>> \o Ramp(len, seed)

GenInput(k) ==
    Ramp(32, 16 * k) \o <<k, 0, 0, 0>> \o GenScript(Min(k, MaxScript), 64 * k)
        \o <<255, 255, 255, 254 + (k % 2)>>

GenOutput(k) ==
    <<k, 0, 0, 0, 0, 0, 0, 128>> \o GenScript(Min(k - 1, MaxScript), 32 * k)

RECURSIVE GenInputs(_, _)
GenInputs(k, n) == IF k > n THEN <<>> ELSE GenInput(k) \o GenInputs(k + 1, n)

RECURSIVE GenOutputs(_, _)
GenOutputs(k, n) == IF k > n THEN <<>> ELSE GenOutput(k) \o GenOutputs(k + 1, n)

GenCount(n, form) == IF form = "short" THEN <<n>> ELSE <<253, n, 0>>

GenTx(nIn, nOut, form) ==
    <<1 + nOut, 0, 0, 0>> \o GenCount(nIn, form) \o GenInputs(1, nIn)
        \o GenCount(nOut, form) \o GenOutputs(1, nOut) \o <<7, 0, 0, 1>>

GenTxs == {GenTx(i, o, f) : i \in 0..MaxItems, o \in 0..MaxItems, f \in {"short", "long"}}

Trails == {<<0>>, <<1, 2, 3>>}

Prefixes(b) == {SubSeq(b, 1, n) : n \in 0..Len(b)}

\* Transactions whose first script announces 2^64 - 1 and 2^63 bytes.
HugeScripts ==
    {<<1, 0, 0, 0, 1>> \o Ramp(32, 0) \o <<0, 0, 0, 0>>
        \o <<255, 255, 255, 255, 255, 255, 255, 255, 255>> \o <<1, 2, 3>>,
     <<1, 0, 0, 0, 0, 1>> \o <<5, 0, 0, 0, 0, 0, 0, 0>>
        \o <<255, 0, 0, 0, 0, 0, 0, 0, 128>>}

Buffers ==
    UNION {Prefixes(b) : b \in GenTxs} \cup {b \o t : b \in GenTxs, t \in Trails}
        \cup HugeScripts

ToUpper(str) ==
    [i \in 1..Len(str) |-> IF HexVal(str[i]) >= 0 THEN HexUpper[HexVal(str[i]) + 1] ELSE str[i]]

Malformed(h) ==
    {SubSeq(h, 1, Len(h) - 1), h \o <<"0">>, h \o <<"g">>, h \o <<"g", "0">>,
     [h EXCEPT ![1] = "x"], [h EXCEPT ![2] = "G"], [h EXCEPT ![Len(h)] = " "]}

HexInputs ==
    {hex_encode(b) : b \in Buffers}
        \cup {ToUpper(hex_encode(b)) : b \in GenTxs}
        \cup UNION {Malformed(hex_encode(b)) : b \in GenTxs}

Init ==
    /\ transaction_hex \in HexInputs
    /\ pc = "hex_decode"
    /\ transaction_bytes = <<>>
    /\ bytes_slice = <<>>
    /\ frame = EmptyFrame
    /\ result = None
    /\ printed = None
    /\ trace = <<>>
    /\ last = NoCall
    /\ ncalls = 0

Next ==
    \/ HexDecode
    \/ ReadVersion
    \/ ReadInputCount
    \/ ReadTxid
    \/ ReadOutputIndex
    \/ ReadScriptSig
    \/ ReadSequence
    \/ ReadOutputCount
    \/ ReadAmount
    \/ ReadScriptPubkey
    \/ ScriptAllocPanics
    \/ ReadLockTime
    \/ HashRawTransaction
    \/ Assemble
    \/ MainPrint

Spec == Init /\ [][Next]_vars

(***************************************************************************)
(* Properties of the readers, stated for SpecReaders.                      *)
(***************************************************************************)
\* The bytes of an unsigned value, least significant first.
LeBytes(limbs) ==
    [i \in 1..(2 * Len(limbs)) |->
        IF i % 2 = 1 THEN limbs[(i + 1) \div 2] % 256 ELSE limbs[i \div 2] \div 256]

\* The extra bytes a CompactSize prefix announces.
Extra(p) == CASE p <= 252 -> 0 [] p = 253 -> 2 [] p = 254 -> 4 [] OTHER -> 8

\* The bytes the encoding at the head of `slice` needs, for each reader.
CSNeed(slice) == IF slice = <<>> THEN 1 ELSE 1 + Extra(slice[1])

Need(op, slice) ==
    CASE op = "read_u32" -> 4
      [] op = "read_amount" -> 8
      [] op = "read_txid" -> 32
      [] op = "read_compact_size" -> CSNeed(slice)
      [] op = "read_script" ->
            IF Len(slice) < CSNeed(slice) THEN CSNeed(slice)
            ELSE CSNeed(slice) + as_usize(read_compact_size(slice).value)

\* C1: every read is strict: with the n bytes of the field present the reader
\* succeeds and advances the cursor by exactly n; with fewer than n bytes
\* remaining it fails (InsufficientData) instead of returning a padded value.
C1_ReadsStrict ==
    last.op # "none" =>
        LET n == Need(last.op, last.before)
        IN  IF Len(last.before) >= n
            THEN /\ last.ret.tag = "Ok"
                 /\ last.ret.rest = SubSeq(last.before, n + 1, Len(last.before))
            ELSE last.ret.tag = "Err"

\* C2: read_compact_size on a slice that holds the encoding: a prefix p in
\* 0..252 is the value and 1 byte is consumed; p = 253 / 254 / 255 yields the
\* next 2 / 4 / 8 bytes as a little-endian value and 3 / 5 / 9 bytes are
\* consumed; a value in a longer form decodes as in its 1-byte form; the
\* values of the test on lines 155-180 come out.
C2_CompactSizeDecodes ==
    (last.op = "read_compact_size" /\ Len(last.before) >= CSNeed(last.before)) =>
        LET b == last.before
            p == b[1]
            e == Extra(p)
            v == last.ret.value
        IN  /\ last.ret.tag = "Ok"
            /\ Len(v) = 4
            /\ \A i \in 1..4 : v[i] \in 0..65535
            /\ last.ret.rest = SubSeq(b, 2 + e, Len(b))
            /\ p <= 252 => v = <<p, 0, 0, 0>>
            /\ p >= 253 => LeBytes(v) = SubSeq(b, 2, 1 + e) \o Zeros(8 - e)
            /\ (p >= 253 /\ b[2] <= 252 /\ \A i \in 3..(1 + e) : b[i] = 0)
                    => v = read_compact_size(<<b[2]>>).value
            /\ b = <<1>> => v = <<1, 0, 0, 0>>
            /\ b = <<253, 0, 1>> => v = <<256, 0, 0, 0>>
            /\ b = <<254, 0, 0, 0, 1>> => v = <<0, 256, 0, 0>>
            /\ b = <<255, 0, 0, 0, 0, 0, 0, 0, 1>> => v = <<0, 0, 0, 256>>
            /\ b = <<253, 32, 78>> => v = <<20000, 0, 0, 0>>

\* C2 witness: a 9-byte encoding (prefix 255) of the value 1 has been decoded.
C2_Witness ==
    /\ last.op = "read_compact_size"
    /\ last.before = <<255, 1, 0, 0, 0, 0, 0, 0, 0>>
    /\ last.ret.value = <<1, 0, 0, 0>>
    /\ bytes_slice = <<>>

(***************************************************************************)
(* decode as a function of the raw buffer (lines 90-135 composed), for the *)
(* properties that compare the decoding of two buffers.                    *)
(***************************************************************************)
RECURSIVE read_inputs(_, _, _)
read_inputs(slice, input_count, acc) ==
    IF ~LtU64(Len(acc), input_count) THEN Ok(acc, slice)
    ELSE LET t == read_txid(slice)
             o == read_u32(t.rest)
             s == read_script(o.rest)
             q == read_u32(s.rest)
         IN  read_inputs(q.rest, input_count,
                         Append(acc, [txid |-> t.value, output_index |-> o.value,
                                      script_sig |-> s.value, sequence |-> q.value]))

RECURSIVE read_outputs(_, _, _)
read_outputs(slice, output_count, acc) ==
    IF ~LtU64(Len(acc), output_count) THEN Ok(acc, slice)
    ELSE LET a == read_amount(slice)
             s == read_script(a.rest)
         IN  read_outputs(s.rest, output_count,
                          Append(acc, [amount |-> a.value, script_pubkey |-> s.value]))

decode_bytes(raw) ==
    LET v  == read_u32(raw)
        ic == read_compact_size(v.rest)
        is == read_inputs(ic.rest, ic.value, <<>>)
        oc == read_compact_size(is.rest)
        os == read_outputs(oc.rest, oc.value, <<>>)
        lt == read_u32(os.rest)
    IN  [tag |-> "Ok",
         value |-> [transaction_id |-> hash_raw_transaction(raw),
                    version |-> v.value, inputs |-> is.value,
                    outputs |-> os.value, lock_time |-> lt.value]]

Returned == pc \in {"returned", "done"}

Succeeded == Returned /\ result.tag = "Ok"

\* decode_bytes and the step-by-step decode agree.
DecodeAgrees == Succeeded => result = decode_bytes(transaction_bytes)

(***************************************************************************)
(* Properties of decode, stated for Spec.                                  *)
(***************************************************************************)
ReaderOf(field) ==
    CASE field \in {"version", "output_index", "sequence", "lock_time"} -> "read_u32"
      [] field \in {"input_count", "output_count"} -> "read_compact_size"
      [] field \in {"script_sig", "script_pubkey"} -> "read_script"
      [] field = "txid" -> "read_txid"
      [] field = "amount" -> "read_amount"

\* The read logged as trace[i] found fewer bytes than its field needs.
ShortRead(i) ==
    LET e == trace[i]
        slice == SubSeq(transaction_bytes, e.pos + 1, Len(transaction_bytes))
    IN  Len(slice) < Need(ReaderOf(e.field), slice)

Truncated == \E i \in 1..Len(trace) : ShortRead(i)

\* C3: a well-formed hex string whose bytes end before a field is complete
\* makes decode fail with InsufficientData; it never succeeds.
C3_TruncatedFails ==
    (Returned /\ Truncated) => (result.tag = "Err" /\ result.value = "InsufficientData")

\* C6: trailing bytes are ignored: a buffer that decodes successfully, followed
\* by any extra bytes, decodes to the same version, inputs, outputs and lock time.
C6_TrailingIgnored ==
    Succeeded =>
        \A t \in Trails :
            LET d == decode_bytes(transaction_bytes \o t)
            IN  /\ d.tag = "Ok"
                /\ d.value.version = result.value.version
                /\ d.value.inputs = result.value.inputs
                /\ d.value.outputs = result.value.outputs
                /\ d.value.lock_time = result.value.lock_time

RECURSIVE Rep(_, _)
Rep(seq, n) == IF n = 0 THEN <<>> ELSE seq \o Rep(seq, n - 1)

\* The wire order of the fields of a transaction with nIn inputs and nOut outputs.
WireOrder(nIn, nOut) ==
    <<"version", "input_count">>
        \o Rep(<<"txid", "output_index", "script_sig", "sequence">>, nIn)
        \o <<"output_count">>
        \o Rep(<<"amount", "script_pubkey">>, nOut)
        \o <<"lock_time">>

FieldsRead == [i \in 1..Len(trace) |-> trace[i].field]

IsPrefix(a, b) == Len(a) <= Len(b) /\ SubSeq(b, 1, Len(a)) = a

IsSuffix(a, b) == Len(a) <= Len(b) /\ SubSeq(b, Len(b) - Len(a) + 1, Len(b)) = a

CountOr0(c) == IF c = None THEN 0 ELSE as_usize(c)

ReadPcs ==
    {"version", "input_count", "txid", "output_index", "script_sig", "sequence",
     "output_count", "amount", "script_pubkey", "lock_time"}

\* C4: the cursor reads of a decode follow the wire order (version, input
\* count, per input txid / output index / script / sequence, output count, per
\* output amount / script, lock time): what has been read is a prefix of it,
\* the read decode is about to make is the next field of it, and once decode
\* has passed its last read the whole order was read, lock time last.
C4_ReadOrder ==
    LET order == WireOrder(CountOr0(frame.input_count), CountOr0(frame.output_count))
    IN  /\ IsPrefix(FieldsRead, order)
        /\ pc \in ReadPcs => order[Len(trace) + 1] = pc
        /\ (pc \in {"hash", "assemble"} \/ Succeeded) =>
                /\ FieldsRead = order
                /\ trace[Len(trace)].field = "lock_time"

\* C4 witness: a decode of MaxItems inputs and outputs has read its lock time.
C4_Witness ==
    /\ pc = "hash"
    /\ Len(frame.inputs) >= 2
    /\ Len(frame.outputs) >= 2
    /\ ~Truncated

TransactionFields == {"transaction_id", "version", "inputs", "outputs", "lock_time"}

C5_State ==
    /\ (result = None) <=> ~Returned
    /\ Returned => result.tag \in {"Ok", "Err"}
    /\ Succeeded =>
            /\ DOMAIN result.value = TransactionFields
            /\ result.value.transaction_id # None
            /\ result.value.version # None
            /\ result.value.lock_time # None
            /\ FieldsRead # <<>> /\ FieldsRead[Len(trace)] = "lock_time"
    /\ printed # None => (pc = "done" /\ printed = result)
    /\ pc = "done" => printed = result
    /\ pc = "panicked" => (result = None /\ printed = None)

C5_Step ==
    /\ (result = None /\ result' # None /\ result'.tag = "Err") =>
            (pc' = "returned" /\ frame' = frame)
    /\ (Returned /\ result.tag = "Err") =>
            (trace' = trace /\ frame' = frame /\ result' = result
                /\ bytes_slice' = bytes_slice /\ pc' = "done")

\* C5: decode is all-or-nothing: nothing is returned or printed before decode
\* ends, what it returns is an error or a Transaction with all five fields
\* (every field read, lock time last); a failing step returns at once, and after a
\* failure no field is read and only the error is printed; a decode that panics
\* returns and prints nothing.
C5_AllOrNothing == [](C5_State) /\ [][C5_Step]_vars

\* C5 witness: a failed decode whose error, and nothing else, was printed.
C5_Witness ==
    /\ pc = "done"
    /\ result.tag = "Err"
    /\ printed = result
    /\ frame = EmptyFrame

C7_State ==
    /\ (pc = "version" \/ (pc = "done" /\ result.tag = "Ok")) =>
            transaction_bytes = hex_decode(transaction_hex).value
    /\ (pc = "assemble" \/ Succeeded) =>
            frame.transaction_id.txid_bytes = Sha256(Sha256(transaction_bytes))
    /\ Succeeded => result.value.transaction_id = frame.transaction_id

C7_Step ==
    /\ pc = "hash" =>
            (bytes_slice' = bytes_slice /\ transaction_bytes' = transaction_bytes
                /\ trace' = trace)
    /\ pc # "hex_decode" => transaction_bytes' = transaction_bytes

\* C7: the transaction id is the double hash of the whole raw buffer that hex
\* decoding produced, whatever the cursor has consumed; computing it leaves the
\* cursor and the raw buffer as they were.
C7_TxidOfRawBuffer == [](C7_State) /\ [][C7_Step]_vars

\* C7 witness: a decode succeeded with part of the buffer consumed and part not.
C7_Witness ==
    /\ pc = "done"
    /\ result.tag = "Ok"
    /\ bytes_slice # <<>>
    /\ Pos > 0

HexChars ==
    {"0", "1", "2", "3", "4", "5", "6", "7", "8", "9",
     "a", "b", "c", "d", "e", "f", "A", "B", "C", "D", "E", "F"}

MalformedHex ==
    \/ Len(transaction_hex) % 2 = 1
    \/ \E i \in 1..Len(transaction_hex) : transaction_hex[i] \notin HexChars

\* C8: an input string of odd length, or with a character that is no hex digit,
\* makes decode fail with a hex decode error before any field is read.
C8_MalformedHexFails ==
    (MalformedHex /\ pc # "hex_decode") =>
        /\ Returned
        /\ result.tag = "Err"
        /\ result.value[1] = "Hex decode error"
        /\ trace = <<>>
        /\ frame = EmptyFrame
        /\ transaction_bytes = <<>>

\* C8 witness: an odd-length string of hex digits only has been refused.
C8_Witness ==
    /\ pc = "done"
    /\ Len(transaction_hex) % 2 = 1
    /\ \A i \in 1..Len(transaction_hex) : transaction_hex[i] \in HexChars
    /\ result.tag = "Err"

\* The bytes of the buffer at 1-based offsets pos+1..pos+n that exist agree with `bytes`.
FromBuffer(bytes, pos) ==
    \A i \in 1..Len(bytes) :
        pos + i <= Len(transaction_bytes) => bytes[i] = transaction_bytes[pos + i]

\* C9: after a successful decode, inputs has as many entries as the decoded
\* input count and outputs as many as the decoded output count; the k-th entry
\* holds the bytes of the k-th group read, groups lying in the buffer in the
\* order of the entries; the Transaction has no field for either count.
C9_CountsAndOrder ==
    Succeeded =>
        LET tx == result.value
            nIn == Len(tx.inputs)
            nOut == Len(tx.outputs)
            inAt(k) == trace[2 + 4 * (k - 1) + 1]
            outAt(k) == trace[2 + 4 * nIn + 1 + 2 * (k - 1) + 1]
        IN  /\ FitsUsize(frame.input_count) /\ nIn = as_usize(frame.input_count)
            /\ FitsUsize(frame.output_count) /\ nOut = as_usize(frame.output_count)
            /\ DOMAIN tx = TransactionFields
            /\ \A k \in 1..nIn :
                    /\ inAt(k).field = "txid"
                    /\ FromBuffer(tx.inputs[k].txid.txid_bytes, inAt(k).pos)
                    /\ FromBuffer(LeBytes(tx.inputs[k].output_index), inAt(k).pos + 32)
                    /\ k < nIn => inAt(k).pos <= inAt(k + 1).pos
            /\ \A k \in 1..nOut :
                    /\ outAt(k).field = "amount"
                    /\ FromBuffer(LeBytes(tx.outputs[k].amount.sat), outAt(k).pos)
                    /\ k < nOut => outAt(k).pos <= outAt(k + 1).pos

\* C9 witness: a complete transaction with two different inputs and two outputs was decoded.
C9_Witness ==
    /\ pc = "done"
    /\ result.tag = "Ok"
    /\ ~Truncated
    /\ Len(result.value.inputs) = 2
    /\ result.value.inputs[1] # result.value.inputs[2]
    /\ Len(result.value.outputs) = 2

C10_State ==
    /\ IsSuffix(bytes_slice, transaction_bytes)
    /\ Pos \in 0..Len(transaction_bytes)
    /\ \A i \in 1..Len(trace) :
            trace[i].pos = (IF i = 1 THEN 0 ELSE trace[i - 1].pos + trace[i - 1].got)
    /\ trace # <<>> => Pos = trace[Len(trace)].pos + trace[Len(trace)].got

C10_Step ==
    pc # "hex_decode" =>
        /\ transaction_bytes' = transaction_bytes
        /\ IsSuffix(bytes_slice', bytes_slice)

\* C10: during a decode the unread part is always a suffix of the raw buffer,
\* the position stays within 0..len and never decreases, each read starts where
\* the one before it ended, and the raw buffer is never changed.
C10_CursorMonotone == [](C10_State) /\ [][C10_Step]_vars

\* C10 witness: a run of reads has moved the cursor into the middle of the buffer.
C10_Witness ==
    /\ Len(trace) >= 6
    /\ Pos > 40
    /\ bytes_slice # <<>>

(***************************************************************************)
(* What the code does do where C1, C3 and C6 fail.                         *)
(***************************************************************************)
\* With the bytes of the field present, each reader returns them and advances by
\* their number; with fewer present, it returns Ok with the missing bytes as 0.
ReadsPadShort ==
    last.op # "none" =>
        LET n == Need(last.op, last.before)
            have == Min(n, Len(last.before))
        IN  /\ last.ret.tag = "Ok"
            /\ last.ret.rest = SubSeq(last.before, have + 1, Len(last.before))
            /\ last.op = "read_u32" =>
                    LeBytes(last.ret.value) = SubSeq(last.before, 1, have) \o Zeros(4 - have)
            /\ last.op = "read_amount" =>
                    LeBytes(last.ret.value.sat) = SubSeq(last.before, 1, have) \o Zeros(8 - have)
            /\ last.op = "read_txid" =>
                    last.ret.value.txid_bytes = SubSeq(last.before, 1, have) \o Zeros(32 - have)

\* A decode of a well-formed hex string that returns, returns Ok, truncated or not.
WellFormedSucceeds == (Returned /\ ~MalformedHex) => result.tag = "Ok"

\* Trailing bytes are ignored after a buffer that was not truncated.
TrailingIgnoredWhenComplete ==
    (Succeeded /\ ~Truncated) =>
        \A t \in Trails :
            LET d == decode_bytes(transaction_bytes \o t)
            IN  /\ d.value.version = result.value.version
                /\ d.value.inputs = result.value.inputs
                /\ d.value.outputs = result.value.outputs
                /\ d.value.lock_time = result.value.lock_time

====
